---- MODULE Spec2Model ----
(***************************************************************************)
(* A model of network/netplay/netplay_gekkonet.c: the wrapper that drives  *)
(* a GekkoNet rollback session for RetroArch.  The state is the            *)
(* ra_gekkonet_ctx_t of one session, the file's static UDP adapter         *)
(* globals, the socket's queue of pending datagrams, a ledger of the       *)
(* resources the wrapper acquires and releases, and the position of the    *)
(* per-frame update (ra_gekkonet_update) among its engine calls and host   *)
(* callbacks.  The GekkoNet engine and the host's callbacks are the        *)
(* environment: what they return is drawn with \E.                         *)
(***************************************************************************)
EXTENDS Integers, Sequences, FiniteSets, TLC

VARIABLES
    ctx,            \* the ra_gekkonet_ctx_t (netplay_gekkonet.h:68-97)
    input_blob,     \* the bytes current_input_buf points at
    g_udp_adapter,  \* static g_udp_adapter: NULL or the adapter
    adapter_owner,  \* the adapter's owner back-reference
    heap,           \* which resources the context holds; double releases
    eng,            \* the GekkoNet engine as seen through its API
    g_udp_results_cap, \* static g_udp_results_cap: capacity of the result list
    sock_queue,     \* datagrams pending on the adapter's socket
    pc,             \* where ra_gekkonet_update is
    ev,             \* the game event being dispatched
    ev_left,        \* events of the current list still to dispatch
    cb_arg,         \* the size argument of the host callback in progress
    tick,           \* per-update bookkeeping of what was delivered and called
    op,             \* the host's last call into the wrapper
    ret,            \* what that call returned
    hist,           \* what has happened since the last ra_gekkonet_init
    second          \* a second session of the process: its context, engine,
                    \* its adapter's socket and owner back-reference

vars == <<ctx, input_blob, g_udp_adapter, adapter_owner, g_udp_results_cap,
          heap, eng, sock_queue, pc, ev, ev_left, cb_arg, tick, op, ret, hist,
          second>>

NULL == "NULL"

(***************************************************************************)
(* Bounds of the model.                                                    *)
(***************************************************************************)
MaxPlayers   == 2   \* params->num_players ranges over 1..MaxPlayers
MaxActors    == 3   \* the engine accepts at most this many actors
MaxQueue     == 2   \* datagrams pending on the socket
MaxEvents    == 2   \* events the engine delivers per list
MaxInputSize == 2   \* params->input_size ranges over 1..MaxInputSize
MaxStateSize == 2   \* params->state_size ranges over 1..MaxStateSize

Bytes == {0, 1}

Min(a, b) == IF a < b THEN a ELSE b

(***************************************************************************)
(* Address texts.  A text is a sequence of characters; the dotted-quad     *)
(* host is kept as one character, since only inet_pton/inet_ntop look      *)
(* inside it.  <<>> stands for an absent or empty addr_string, which the   *)
(* code treats alike (addr_string && *addr_string).                        *)
(***************************************************************************)
DigitChars == <<"0", "1", "2", "3", "4", "5", "6", "7", "8", "9">>

RECURSIVE Digits(_)
\* the %hu conversion of snprintf: decimal, no leading zeros
Digits(n) == IF n < 10 THEN <<DigitChars[n + 1]>>
             ELSE Digits(n \div 10) \o <<DigitChars[(n % 10) + 1]>>

\* snprintf(addrbuf, sizeof(addrbuf), "%s:%hu", ip, port)
FormatAddr(ip, port) == <<ip, ":">> \o Digits(port)

Endpoints == {[ip |-> "10.0.0.2", port |-> 7000],
              [ip |-> "10.0.0.3", port |-> 7000]}

\* what the host may pass as addr_string: nothing, the canonical text of an
\* endpoint, or another spelling of the first endpoint (a zero-padded port)
HostAddrs == {<<>>} \cup {FormatAddr(e.ip, e.port) : e \in Endpoints}
                    \cup {<<"10.0.0.2", ":", "0", "7", "0", "0", "0">>}

PlayerTypes == {"LocalPlayer", "RemotePlayer", "Spectator"}

(***************************************************************************)
(* The context after ra_gekkonet_init's memset of the whole struct to 0.   *)
(***************************************************************************)
ZeroCtx ==
    [session |-> NULL, adapter |-> NULL, num_players |-> 0,
     save_cb |-> NULL, load_cb |-> NULL, run_frame_cb |-> NULL,
     session_event_cb |-> NULL,
     state_size |-> 0, input_size |-> 0,
     current_input_buf |-> NULL, current_input |-> NULL,
     remote_addrs |-> <<>>, remote_addrs_cap |-> 0,
     local_actor_count |-> 0, remote_actor_count |-> 0,
     ready_for_state |-> FALSE, owns_adapter |-> FALSE, active |-> FALSE]

\* acquiring r: the context now holds r
Acquire(h, r) == [h EXCEPT !.live = @ \cup {r}]

\* releasing r: releasing what is not held is a double release
Release(h, r) == IF r \in h.live THEN [h EXCEPT !.live = @ \ {r}]
                 ELSE [h EXCEPT !.bad_free = TRUE]

\* the host's call: its name, the actor type of an add_actor or whether a
\* push_local_input came with a blob, and whether it directly follows a
\* ra_gekkonet_deinit
NoOp == [name |-> "none", type |-> "-", after_deinit |-> FALSE]
Call(name, type) == [name |-> name, type |-> type,
                     after_deinit |-> op.name = "deinit"]
Op(name) == Call(name, "-")

NoEvent == [type |-> "none", ptr |-> FALSE, len_ptr |-> FALSE, len |-> 0,
            payload |-> <<>>]

NoBlob == [present |-> FALSE, bytes |-> <<>>]

\* the last call of ra_gekkonet_udp_send: the address text it was given,
\* whether the size counted a terminating NUL, and what it handed to sendto
NoSend == [data |-> <<>>, nul |-> FALSE, wire |-> <<>>]

\* what ra_gekkonet_udp_receive returned: *length and whether the result is
\* the list (g_udp_results) rather than NULL
NoRecv == [count |-> 0, list |-> FALSE]

NoTick == [advances |-> 0, runnable |-> 0, run_frame_calls |-> 0,
           stale |-> FALSE, last_advance |-> NoBlob,
           slot |-> 0, session_count |-> 0, session_read |-> 0,
           session_events |-> 0, session_cbs |-> 0,
           queued |-> <<>>, results |-> <<>>, tokens |-> <<>>,
           recv |-> NoRecv,
           attempts |-> 0, registry |-> <<>>, send |-> NoSend]

NoHist == [save_ok |-> FALSE, advance |-> FALSE,
           remote_regs |-> [a \in HostAddrs |-> 0], remote_tokens |-> {},
           spectators |-> {}]

\* no second session: its context is all zero, it has no adapter
NoSecond == [ctx |-> ZeroCtx,
             eng |-> [next_handle |-> 0, calls |-> <<>>, events |-> <<>>],
             sock_queue |-> <<>>, adapter_owner |-> NULL]

Init ==
    /\ second = NoSecond
    /\ ctx = ZeroCtx
    /\ input_blob = <<>>
    /\ g_udp_adapter = NULL
    /\ adapter_owner = NULL
    /\ heap = [live |-> {}, bad_free |-> FALSE]
    /\ g_udp_results_cap = 0
    /\ eng = [next_handle |-> 0, calls |-> <<>>, events |-> <<>>]
    /\ sock_queue = <<>>
    /\ pc = "idle"
    /\ ev = NoEvent
    /\ ev_left = 0
    /\ cb_arg = 0
    /\ tick = NoTick
    /\ op = NoOp
    /\ ret = 0
    /\ hist = NoHist

\* ra_gekkonet_get_current_input: the published blob, or none
ra_gekkonet_get_current_input ==
    IF ctx.current_input = NULL THEN NoBlob
    ELSE [present |-> TRUE, bytes |-> input_blob]

(***************************************************************************)
(* ra_gekkonet_init.  outcome says which step of the construction fails,   *)
(* if any: gekko_create, the calloc of the input buffer, or                *)
(* ra_gekkonet_udp_adapter_create (socket, non-blocking mode, bind).       *)
(***************************************************************************)
InitOutcomes == {"ok", "create_fails", "calloc_fails", "adapter_fails"}

Zeros(n) == [k \in 1..n |-> 0]

\* InitCtx without line 463: the fresh buffer is not published
InitCtx_Unpublished(params, save_cb, load_cb, outcome) ==
    LET c0 == [ZeroCtx EXCEPT !.save_cb = save_cb, !.load_cb = load_cb,
                              !.state_size = params.state_size,
                              !.input_size = params.input_size]
        c1 == [c0 EXCEPT !.num_players = params.num_players]
        c2 == [c1 EXCEPT !.current_input_buf = "buf"]
    IN  CASE outcome = "create_fails"  -> c0
          [] outcome = "calloc_fails"  -> c1
          [] outcome = "adapter_fails" -> c2
          [] outcome = "ok" ->
                [c2 EXCEPT !.session = "session", !.adapter = "adapter",
                           !.owns_adapter = TRUE, !.active = TRUE]

\* lines 426-435 and 443-452: the cleared context with callbacks and sizes
InitCtx(params, save_cb, load_cb, outcome) ==
    LET c0 == [ZeroCtx EXCEPT !.save_cb = save_cb, !.load_cb = load_cb,
                              !.state_size = params.state_size,
                              !.input_size = params.input_size]
        c1 == [c0 EXCEPT !.num_players = params.num_players]
        c2 == [c1 EXCEPT !.current_input_buf = "buf", !.current_input = "buf",
                         !.ready_for_state = FALSE]
    IN  CASE outcome = "create_fails"  -> c0
          [] outcome = "calloc_fails"  -> c1
          [] outcome = "adapter_fails" -> c2
          [] outcome = "ok" ->
                [c2 EXCEPT !.session = "session", !.adapter = "adapter",
                           !.owns_adapter = TRUE, !.active = TRUE]

\* what init acquires and releases on each path; the memset drops whatever
\* pointer the context still held
InitHeap(h, outcome) ==
    LET h0 == [h EXCEPT !.live = {}]
        h1 == Acquire(h0, "engine")
        h2 == Acquire(h1, "input_buf")
    IN  CASE outcome = "create_fails"  -> h0
          [] outcome = "calloc_fails"  -> Release(h1, "engine")
          [] outcome = "adapter_fails" -> Release(h2, "engine")
          [] outcome = "ok"            -> Acquire(h2, "adapter")

InitCalls(outcome) ==
    CASE outcome = "create_fails"  -> <<"gekko_create">>
      [] outcome = "calloc_fails"  -> <<"gekko_create", "gekko_destroy">>
      [] outcome = "adapter_fails" -> <<"gekko_create", "gekko_destroy">>
      [] outcome = "ok" -> <<"gekko_create", "gekko_net_adapter_set",
                             "gekko_start">>

ra_gekkonet_init(params, save_cb, load_cb, outcome) ==
    /\ pc = "idle"
    /\ ~ctx.active
    /\ ctx' = InitCtx(params, save_cb, load_cb, outcome)
    /\ input_blob' = IF outcome \in {"adapter_fails", "ok"}
                     THEN Zeros(params.input_size) ELSE <<>>
    /\ heap' = InitHeap(heap, outcome)
    /\ g_udp_adapter' = IF outcome = "ok" THEN "adapter" ELSE g_udp_adapter
    /\ adapter_owner' = IF outcome = "ok" THEN "ctx" ELSE adapter_owner
    /\ eng' = [next_handle |-> 0, calls |-> InitCalls(outcome),
                events |-> <<>>]
    /\ sock_queue' = <<>>
    /\ op' = Op("init")
    /\ ret' = IF outcome = "ok" THEN 1 ELSE 0
    /\ hist' = NoHist
    /\ tick' = NoTick
    /\ UNCHANGED <<g_udp_results_cap, pc, ev, ev_left, cb_arg>>
    /\ UNCHANGED second

(***************************************************************************)
(* ra_gekkonet_set_run_frame_cb, ra_gekkonet_set_session_event_cb.         *)
(***************************************************************************)
ra_gekkonet_set_run_frame_cb(cb) ==
    /\ pc = "idle"
    /\ ctx' = [ctx EXCEPT !.run_frame_cb = cb]
    /\ op' = Op("set_run_frame_cb")
    /\ ret' = 0
    /\ eng' = [eng EXCEPT !.calls = <<>>]
    /\ UNCHANGED <<input_blob, g_udp_adapter, adapter_owner, g_udp_results_cap,
                   heap, sock_queue, pc, ev, ev_left, cb_arg, tick, hist>>
    /\ UNCHANGED second

ra_gekkonet_set_session_event_cb(cb) ==
    /\ pc = "idle"
    /\ ctx' = [ctx EXCEPT !.session_event_cb = cb]
    /\ op' = Op("set_session_event_cb")
    /\ ret' = 0
    /\ eng' = [eng EXCEPT !.calls = <<>>]
    /\ UNCHANGED <<input_blob, g_udp_adapter, adapter_owner, g_udp_results_cap,
                   heap, sock_queue, pc, ev, ev_left, cb_arg, tick, hist>>
    /\ UNCHANGED second

(***************************************************************************)
(* ra_gekkonet_deinit.                                                     *)
(***************************************************************************)
\* DestroysAdapter that never does
DestroysAdapter_Never(c) == FALSE

\* lines 521-525: the adapter is destroyed only when the session owns it
DestroysAdapter(c) == c.owns_adapter /\ c.adapter # NULL

\* DeinitCtx without the final reset of session, owns_adapter and active
DeinitCtx_NoFinalReset(c) ==
    IF ~c.active THEN c
    ELSE [c EXCEPT !.adapter = IF DestroysAdapter(c) THEN NULL ELSE @,
                   !.remote_addrs = <<>>, !.remote_addrs_cap = 0,
                   !.current_input_buf = NULL, !.current_input = NULL,
                   !.local_actor_count = 0, !.remote_actor_count = 0]

\* the context ra_gekkonet_deinit leaves behind
DeinitCtx(c) ==
    IF ~c.active THEN c
    ELSE [c EXCEPT !.adapter = IF DestroysAdapter(c) THEN NULL ELSE @,
                   !.remote_addrs = <<>>, !.remote_addrs_cap = 0,
                   !.current_input_buf = NULL, !.current_input = NULL,
                   !.session = NULL, !.owns_adapter = FALSE,
                   !.active = FALSE,
                   !.local_actor_count = 0, !.remote_actor_count = 0]

\* what ra_gekkonet_deinit releases
DeinitHeap(c, h) ==
    IF ~c.active THEN h
    ELSE LET h1 == IF c.session # NULL THEN Release(h, "engine") ELSE h
             h2 == IF DestroysAdapter(c) THEN Release(h1, "adapter") ELSE h1
         IN  IF c.current_input_buf # NULL THEN Release(h2, "input_buf")
             ELSE h2

\* the body of ra_gekkonet_deinit, wherever the host calls it from
Deinit ==
    /\ op' = Op("deinit")
    /\ ret' = 0
    /\ ctx' = DeinitCtx(ctx)
    /\ heap' = DeinitHeap(ctx, heap)
    /\ eng' = [eng EXCEPT !.calls = IF ctx.active /\ ctx.session # NULL
                                    THEN <<"gekko_destroy">> ELSE <<>>]
    /\ IF ctx.active /\ DestroysAdapter(ctx)
       THEN \* ra_gekkonet_udp_adapter_destroy, lines 225-246
            /\ sock_queue' = <<>>
            /\ g_udp_results_cap' = 0
            /\ adapter_owner' = NULL
            /\ g_udp_adapter' = IF g_udp_adapter = ctx.adapter THEN NULL
                                ELSE g_udp_adapter
       ELSE UNCHANGED <<sock_queue, g_udp_results_cap, adapter_owner,
                        g_udp_adapter>>
    /\ input_blob' = IF ctx.active THEN <<>> ELSE input_blob
    /\ UNCHANGED <<pc, ev, ev_left, cb_arg, tick, hist>>
    /\ UNCHANGED second

\* the host calls ra_gekkonet_deinit between two ticks
ra_gekkonet_deinit == pc = "idle" /\ Deinit

\* the host's session-event observer calls ra_gekkonet_deinit before it
\* returns; lines 795-808 go on with the for loop after the callback
DeinitInObserver == pc = "in_session_event_cb" /\ Deinit

(***************************************************************************)
(* The address registry.                                                   *)
(***************************************************************************)
\* ra_gekkonet_addr_known that finds no address
ra_gekkonet_addr_known_Never(c, addr) == FALSE

\* strcmp over the first remote_addrs_count entries
ra_gekkonet_addr_known(c, addr) == \E k \in 1..Len(c.remote_addrs) :
                                       c.remote_addrs[k] = addr

\* ra_gekkonet_remember_addr without the check for a known address
ra_gekkonet_remember_addr_NoCheck(c, addr) ==
    [c EXCEPT !.remote_addrs = Append(@, addr),
              !.remote_addrs_cap = IF Len(c.remote_addrs) >= @
                                   THEN (IF @ # 0 THEN @ * 2 ELSE 4) ELSE @]

\* appends a copy of addr unless it is known; the capacity doubles from 4
ra_gekkonet_remember_addr(c, addr) ==
    IF ra_gekkonet_addr_known(c, addr) THEN c
    ELSE LET grow == Len(c.remote_addrs) >= c.remote_addrs_cap
             new_cap == IF c.remote_addrs_cap # 0 THEN c.remote_addrs_cap * 2
                        ELSE 4
         IN  [c EXCEPT !.remote_addrs = Append(@, addr),
                       !.remote_addrs_cap = IF grow THEN new_cap ELSE @]

(***************************************************************************)
(* ra_gekkonet_add_actor.  accept is the engine's answer, were it asked:   *)
(* gekko_add_actor returns the next handle or a negative value.            *)
(* The result is the context, the engine and the returned handle.          *)
(***************************************************************************)
\* AtCapacity with > in place of >=
AtCapacity_OffByOne(c) ==
    c.remote_actor_count + c.local_actor_count > c.num_players

\* lines 565-566: no room is left for a remote player
AtCapacity(c) == c.remote_actor_count + c.local_actor_count >= c.num_players

\* CapacityLimited that also holds for a spectator
CapacityLimited_AllButLocal(type) == type # "LocalPlayer"

\* line 565: the capacity check is made for a remote player only
CapacityLimited(type) == type = "RemotePlayer"

\* Registered that counts a spectator as a remote player
Registered_CountsSpectator(c, type, addr_string) ==
    IF type = "LocalPlayer" THEN [c EXCEPT !.local_actor_count = @ + 1]
    ELSE LET c1 == [c EXCEPT !.remote_actor_count = @ + 1]
         IN  IF addr_string # <<>>
             THEN ra_gekkonet_remember_addr(c1, addr_string)
             ELSE c1

\* lines 611-618: the context after the engine gave a handle
Registered(c, type, addr_string) ==
    CASE type = "LocalPlayer" -> [c EXCEPT !.local_actor_count = @ + 1]
      [] type = "RemotePlayer" ->
           LET c1 == [c EXCEPT !.remote_actor_count = @ + 1]
           IN  IF addr_string # <<>>
               THEN ra_gekkonet_remember_addr(c1, addr_string)
               ELSE c1
      [] OTHER -> c

AddActor(c, e, type, addr_string, accept) ==
    IF c.session = NULL THEN [ctx |-> c, eng |-> e, ret |-> -1]
    ELSE IF CapacityLimited(type) /\ AtCapacity(c)
    THEN [ctx |-> c, eng |-> e, ret |-> -1]
    ELSE LET e1 == [e EXCEPT !.calls = Append(@, "gekko_add_actor")]
         IN  IF ~accept THEN [ctx |-> c, eng |-> e1, ret |-> -1]
             ELSE [ctx |-> Registered(c, type, addr_string),
                   eng |-> [e1 EXCEPT !.next_handle = @ + 1],
                   ret |-> e.next_handle]

\* lines 574-594: the GekkoNetAddress handed to gekko_add_actor, a copy of
\* addr_string with its terminating NUL, which the size counts
ActorToken(addr_string) ==
    IF addr_string # <<>> THEN [data |-> addr_string, nul |-> TRUE]
    ELSE [data |-> <<>>, nul |-> FALSE]

\* the history of successful Remote registrations, per address text, with
\* the address tokens the engine was handed in them, and the address texts
\* successfully registered as Spectator
NoteRegistration(h, type, addr_string, r) ==
    IF type = "RemotePlayer" /\ r >= 0
    THEN [h EXCEPT !.remote_regs[addr_string] = @ + 1,
                   !.remote_tokens = @ \cup {ActorToken(addr_string)}]
    ELSE IF type = "Spectator" /\ r >= 0 /\ addr_string # <<>>
    THEN [h EXCEPT !.spectators = @ \cup {addr_string}]
    ELSE h

ra_gekkonet_add_actor(type, addr_string, accept) ==
    /\ pc = "idle"
    /\ accept => eng.next_handle < MaxActors
    /\ LET r == AddActor(ctx, [eng EXCEPT !.calls = <<>>], type, addr_string,
                         accept)
       IN  /\ ctx' = r.ctx
           /\ eng' = r.eng
           /\ ret' = r.ret
           /\ hist' = NoteRegistration(hist, type, addr_string, r.ret)
    /\ op' = Call("add_actor", type)
    /\ UNCHANGED <<input_blob, g_udp_adapter, adapter_owner, g_udp_results_cap,
                   heap, sock_queue, pc, ev, ev_left, cb_arg, tick>>
    /\ UNCHANGED second

(***************************************************************************)
(* ra_gekkonet_set_local_delay and ra_gekkonet_push_local_input.  The      *)
(* engine takes the actor handle as it is; has_blob says whether           *)
(* input_blob is set.                                                      *)
(***************************************************************************)
ra_gekkonet_set_local_delay ==
    /\ pc = "idle"
    /\ op' = Op("set_local_delay")
    /\ ret' = 0
    /\ eng' = [eng EXCEPT !.calls = IF ctx.session # NULL
                                    THEN <<"gekko_set_local_delay">>
                                    ELSE <<>>]
    /\ UNCHANGED <<ctx, input_blob, g_udp_adapter, adapter_owner,
                   g_udp_results_cap, heap, sock_queue, pc, ev, ev_left,
                   cb_arg, tick, hist>>
    /\ UNCHANGED second

\* PushReachesEngine that does not look at the blob
PushReachesEngine_IgnoresBlob(c, has_blob) == c.session # NULL

\* line 640: the input goes to the engine only with a session and a blob
PushReachesEngine(c, has_blob) == c.session # NULL /\ has_blob

ra_gekkonet_push_local_input(has_blob) ==
    /\ pc = "idle"
    /\ op' = Call("push_local_input", IF has_blob THEN "blob" ELSE NULL)
    /\ ret' = IF PushReachesEngine(ctx, has_blob) THEN 1 ELSE 0
    /\ eng' = [eng EXCEPT !.calls = IF PushReachesEngine(ctx, has_blob)
                                    THEN <<"gekko_add_local_input">>
                                    ELSE <<>>]
    /\ UNCHANGED <<ctx, input_blob, g_udp_adapter, adapter_owner,
                   g_udp_results_cap, heap, sock_queue, pc, ev, ev_left,
                   cb_arg, tick, hist>>
    /\ UNCHANGED second

(***************************************************************************)
(* The socket.  A datagram carries its source endpoint and a payload       *)
(* length; one arrives only while ra_gekkonet_update is not running.       *)
(***************************************************************************)
PayloadLens == {0, 1}

Datagrams == [src : Endpoints, len : PayloadLens]

DatagramArrives(d) ==
    /\ pc = "idle"
    /\ g_udp_adapter # NULL
    /\ Len(sock_queue) < MaxQueue
    /\ sock_queue' = Append(sock_queue, d)
    /\ op' = NoOp
    /\ ret' = 0
    /\ eng' = [eng EXCEPT !.calls = <<>>]
    /\ UNCHANGED <<ctx, input_blob, g_udp_adapter, adapter_owner,
                   g_udp_results_cap, heap, pc, ev, ev_left, cb_arg, tick,
                   hist>>
    /\ UNCHANGED second

(***************************************************************************)
(* ra_gekkonet_parse_addr and ra_gekkonet_udp_send.  A GekkoNetAddress is  *)
(* its bytes and its size; the size is the text's length, plus one when    *)
(* the terminating NUL is counted (as ra_gekkonet_add_actor does).  Beside *)
(* the characters of the address texts above, a text may hold a host name, *)
(* a letter, and ZeroRun, a run of 114 zero digits in one character, which *)
(* is only used right after the colon.                                     *)
(***************************************************************************)
AddrBufSize == 128   \* char buf[128] of ra_gekkonet_parse_addr

ZeroRun == "0 (114 times)"

Width(ch) == CASE ch \in {"10.0.0.2", "10.0.0.3"} -> 8
               [] ch = "example" -> 7
               [] ch = ZeroRun -> 114
               [] OTHER -> 1

RECURSIVE strlen(_)
strlen(text) == IF text = <<>> THEN 0
                ELSE Width(Head(text)) + strlen(Tail(text))

\* addr->size
AddrSize(addr) == strlen(addr.data) + (IF addr.nul THEN 1 ELSE 0)

\* strrchr(buf, ':'): the place of the last colon, 0 if there is none
strrchr(text) ==
    IF \E k \in 1..Len(text) : text[k] = ":"
    THEN CHOOSE k \in 1..Len(text) :
             /\ text[k] = ":"
             /\ \A j \in (k + 1)..Len(text) : text[j] # ":"
    ELSE 0

IsDigit(ch) == ch = ZeroRun \/ \E d \in 1..10 : DigitChars[d] = ch

DigitValue(ch) == IF ch = ZeroRun THEN 0
                  ELSE (CHOOSE d \in 1..10 : DigitChars[d] = ch) - 1

RECURSIVE strtoul(_, _)
\* strtoul(s, NULL, 10) from the value acc on: the digits s begins with; 0
\* when it begins with none
strtoul(text, acc) ==
    IF text = <<>> \/ ~IsDigit(Head(text)) THEN acc
    ELSE strtoul(Tail(text), IF Head(text) = ZeroRun THEN acc
                             ELSE acc * 10 + DigitValue(Head(text)))

\* lines 253-278: the host text and the port, or a failure
ra_gekkonet_parse_addr(addr) ==
    LET len == AddrSize(addr)
        colon == strrchr(addr.data)
    IN  IF len = 0 \/ len >= AddrBufSize THEN [ok |-> FALSE]
        ELSE IF colon = 0 \/ colon = 1 THEN [ok |-> FALSE]
        ELSE [ok |-> TRUE,
              host |-> SubSeq(addr.data, 1, colon - 1),
              port |-> strtoul(SubSeq(addr.data, colon + 1, Len(addr.data)),
                               0) % 65536]

\* inet_pton(AF_INET, host, ...) = 1: the host is a dotted quad
inet_pton(host) == host \in {<<"10.0.0.2">>, <<"10.0.0.3">>}

\* lines 289-302: what ra_gekkonet_udp_send hands to sendto, if anything
SendTo(adapter, addr, length) ==
    IF adapter = NULL \/ length <= 0 THEN <<>>
    ELSE LET p == ra_gekkonet_parse_addr(addr)
         IN  IF ~p.ok THEN <<>>
             ELSE IF ~inet_pton(p.host) THEN <<>>
             ELSE <<[ip |-> p.host[1], port |-> p.port, len |-> length]>>

\* the engine sends through the adapter while it polls
ra_gekkonet_udp_send(addr, length) ==
    /\ pc = "poll"
    /\ tick' = [tick EXCEPT
                  !.send = [data |-> addr.data, nul |-> addr.nul,
                            wire |-> SendTo(g_udp_adapter, addr, length)]]
    /\ UNCHANGED <<ctx, input_blob, g_udp_adapter, adapter_owner,
                   g_udp_results_cap, heap, eng, sock_queue, pc, ev, ev_left,
                   cb_arg, op, ret, hist>>
    /\ UNCHANGED second

(***************************************************************************)
(* ra_gekkonet_update.  It returns at once on a session that is not        *)
(* active; otherwise it calls gekko_network_poll, in which the engine      *)
(* calls the adapter's receive_data (ra_gekkonet_udp_receive).             *)
(***************************************************************************)
\* UpdateRuns without the early return
UpdateRuns_Always(c) == TRUE

\* line 827: the update goes on only for an active session with an engine
UpdateRuns(c) == c.session # NULL /\ c.active

UpdateBegin ==
    /\ pc = "idle"
    /\ op' = Op("update")
    /\ ret' = 0
    /\ IF ~UpdateRuns(ctx)
       THEN /\ eng' = [eng EXCEPT !.calls = <<>>]
            /\ UNCHANGED <<pc, tick>>
       ELSE /\ eng' = [eng EXCEPT !.calls = <<"gekko_network_poll">>]
            /\ pc' = "poll"
            /\ tick' = [NoTick EXCEPT !.queued = sock_queue,
                                      !.registry = ctx.remote_addrs]
    /\ UNCHANGED <<ctx, input_blob, g_udp_adapter, adapter_owner,
                   g_udp_results_cap, heap, sock_queue, ev, ev_left, cb_arg,
                   hist>>
    /\ UNCHANGED second

\* AutoDiscovers that wants room for one more actor than it asks for
AutoDiscovers_OffByOne(c, addrbuf) ==
    /\ ~ra_gekkonet_addr_known(c, addrbuf)
    /\ c.remote_actor_count + c.local_actor_count + 1 < c.num_players

\* lines 388-397: auto-discovery of the sender of a received datagram
AutoDiscovers(c, addrbuf) ==
    /\ ~ra_gekkonet_addr_known(c, addrbuf)
    /\ c.remote_actor_count + c.local_actor_count < c.num_players

\* lines 368-376: res->addr, the addr_len = strlen(addrbuf) bytes of the
\* text without a terminating NUL
SourceToken(addrbuf) == [data |-> addrbuf, nul |-> FALSE]

\* lines 367-386: the result built for a received datagram, its source
\* address as text and its payload length
Result(d) == [addr |-> FormatAddr(d.src.ip, d.src.port), len |-> d.len]

\* recvfrom that leaves the datagram on the socket
recvfrom_Peek(q) == q

\* lines 327-328: recvfrom takes the datagram at the head of the socket
recvfrom(q) == Tail(q)

\* one pass of the receive loop that gets a datagram (recvd > 0)
RecvDatagram(accept) ==
    /\ pc = "poll"
    /\ g_udp_adapter # NULL
    /\ sock_queue # <<>>
    /\ Head(sock_queue).len > 0
    /\ accept => eng.next_handle < MaxActors
    /\ LET d == Head(sock_queue)
           addrbuf == FormatAddr(d.src.ip, d.src.port)
           discover == adapter_owner # NULL /\ AutoDiscovers(ctx, addrbuf)
           r == IF discover
                THEN AddActor(ctx, eng, "RemotePlayer", addrbuf, accept)
                ELSE [ctx |-> ctx, eng |-> eng, ret |-> 0]
       IN  /\ discover \/ ~accept
           /\ ctx' = r.ctx
           /\ eng' = r.eng
           /\ hist' = IF discover
                      THEN NoteRegistration(hist, "RemotePlayer", addrbuf, r.ret)
                      ELSE hist
    /\ sock_queue' = recvfrom(sock_queue)
    /\ g_udp_results_cap' = IF g_udp_results_cap = 0 THEN 8
                            ELSE g_udp_results_cap
    /\ tick' = [tick EXCEPT
                  !.results = Append(@, Result(Head(sock_queue))),
                  !.tokens = Append(@, SourceToken(Result(Head(sock_queue)).addr)),
                  !.attempts = @ + 1]
    /\ UNCHANGED <<input_blob, g_udp_adapter, adapter_owner, heap, pc, ev,
                   ev_left, cb_arg, op, ret>>
    /\ UNCHANGED second

\* lines 403-404: the count and the list, or NULL when the count is 0
Returned(count) == [count |-> count, list |-> count > 0]

\* the pass that ends the loop: recvfrom returns <= 0 (nothing pending, or a
\* datagram of length 0, which recvfrom consumes), or there is no adapter
RecvEnd ==
    /\ pc = "poll"
    /\ (g_udp_adapter # NULL /\ sock_queue # <<>>) => Head(sock_queue).len = 0
    /\ sock_queue' = IF g_udp_adapter # NULL /\ sock_queue # <<>>
                     THEN recvfrom(sock_queue) ELSE sock_queue
    /\ pc' = "session_events"
    /\ tick' = [tick EXCEPT !.recv = Returned(Len(tick.results)),
                            !.attempts = IF g_udp_adapter # NULL THEN @ + 1
                                         ELSE @]
    /\ UNCHANGED <<ctx, input_blob, g_udp_adapter, adapter_owner,
                   g_udp_results_cap, heap, eng, ev, ev_left, cb_arg, op,
                   ret, hist>>
    /\ UNCHANGED second

\* the pass that ends the loop though a datagram is pending: recvfrom
\* returns -1 for an interrupted call or an error the socket reports, and
\* lines 330-341 break on every recvd <= 0
RecvFails ==
    /\ pc = "poll"
    /\ g_udp_adapter # NULL
    /\ sock_queue # <<>>
    /\ pc' = "session_events"
    /\ tick' = [tick EXCEPT !.recv = Returned(Len(tick.results)),
                            !.attempts = @ + 1]
    /\ UNCHANGED <<ctx, input_blob, g_udp_adapter, adapter_owner,
                   g_udp_results_cap, heap, eng, sock_queue, ev, ev_left,
                   cb_arg, op, ret, hist>>
    /\ UNCHANGED second

(***************************************************************************)
(* A second session in the process.  The file keeps one adapter pointer,   *)
(* g_udp_adapter, for all sessions: ra_gekkonet_udp_adapter_create stores  *)
(* the adapter it made there (line 221), and ra_gekkonet_udp_send and      *)
(* ra_gekkonet_udp_receive, which the engine of every session is given,    *)
(* use that adapter's socket and owner.  The second session is set up      *)
(* after the first and torn down by the host between two ticks of the      *)
(* first; its own ticks are left out.                                      *)
(***************************************************************************)
\* ra_gekkonet_init of the second session, every step of it succeeding
InitSecond(params) ==
    /\ pc = "idle"
    /\ ctx.active
    /\ ~second.ctx.active
    /\ second' = [ctx |-> [InitCtx(params, "cb", "cb", "ok")
                             EXCEPT !.session = "session_b",
                                    !.adapter = "adapter_b"],
                  eng |-> [next_handle |-> 0, calls |-> InitCalls("ok"),
                           events |-> <<>>],
                  sock_queue |-> <<>>,
                  adapter_owner |-> "ctx_b"]
    /\ g_udp_adapter' = "adapter_b"
    /\ op' = Call("init", "second")
    /\ ret' = 1
    /\ eng' = [eng EXCEPT !.calls = <<>>]
    /\ UNCHANGED <<ctx, input_blob, adapter_owner, g_udp_results_cap, heap,
                   sock_queue, pc, ev, ev_left, cb_arg, tick, hist>>

\* ra_gekkonet_deinit of the second session
DeinitSecond ==
    /\ pc = "idle"
    /\ LET destroys == second.ctx.active /\ DestroysAdapter(second.ctx)
       IN  /\ second' = [second EXCEPT
                           !.ctx = DeinitCtx(@),
                           !.eng.calls = IF second.ctx.active
                                         THEN <<"gekko_destroy">> ELSE <<>>,
                           !.sock_queue = IF destroys THEN <<>> ELSE @,
                           !.adapter_owner = IF destroys THEN NULL ELSE @]
           /\ g_udp_results_cap' = IF destroys THEN 0 ELSE g_udp_results_cap
           /\ g_udp_adapter' = IF destroys /\ g_udp_adapter = second.ctx.adapter
                               THEN NULL ELSE g_udp_adapter
    /\ op' = Call("deinit", "second")
    /\ ret' = 0
    /\ eng' = [eng EXCEPT !.calls = <<>>]
    /\ UNCHANGED <<ctx, input_blob, adapter_owner, heap, sock_queue, pc, ev,
                   ev_left, cb_arg, tick, hist>>

\* a datagram arrives on the socket of the second session's adapter
DatagramArrivesSecond(d) ==
    /\ pc = "idle"
    /\ second.ctx.adapter # NULL
    /\ Len(second.sock_queue) < MaxQueue
    /\ second' = [second EXCEPT !.sock_queue = Append(@, d)]
    /\ op' = NoOp
    /\ ret' = 0
    /\ eng' = [eng EXCEPT !.calls = <<>>]
    /\ UNCHANGED <<ctx, input_blob, g_udp_adapter, adapter_owner,
                   g_udp_results_cap, heap, sock_queue, pc, ev, ev_left,
                   cb_arg, tick, hist>>

\* one pass of the receive loop that gets a datagram, in the poll of the
\* first session while g_udp_adapter is the second session's adapter:
\* recvfrom reads that adapter's socket and auto-discovery registers with
\* that adapter's owner
RecvDatagramSecond(accept) ==
    /\ pc = "poll"
    /\ g_udp_adapter = "adapter_b"
    /\ second.sock_queue # <<>>
    /\ Head(second.sock_queue).len > 0
    /\ accept => second.eng.next_handle < MaxActors
    /\ LET d == Head(second.sock_queue)
           addrbuf == FormatAddr(d.src.ip, d.src.port)
           discover == /\ second.adapter_owner # NULL
                       /\ AutoDiscovers(second.ctx, addrbuf)
           e == [second.eng EXCEPT !.calls = <<>>]
           r == IF discover
                THEN AddActor(second.ctx, e, "RemotePlayer", addrbuf, accept)
                ELSE [ctx |-> second.ctx, eng |-> e, ret |-> 0]
       IN  /\ discover \/ ~accept
           /\ second' = [second EXCEPT !.ctx = r.ctx, !.eng = r.eng,
                                       !.sock_queue = recvfrom(@)]
    /\ g_udp_results_cap' = IF g_udp_results_cap = 0 THEN 8
                            ELSE g_udp_results_cap
    /\ tick' = [tick EXCEPT
                  !.results = Append(@, Result(Head(second.sock_queue))),
                  !.tokens = Append(@, SourceToken(
                                          Result(Head(second.sock_queue)).addr)),
                  !.attempts = @ + 1]
    /\ UNCHANGED <<ctx, input_blob, g_udp_adapter, adapter_owner, heap, eng,
                   sock_queue, pc, ev, ev_left, cb_arg, op, ret, hist>>

\* the pass that ends that loop: nothing is pending on the second session's
\* socket, or a datagram of length 0, which recvfrom consumes
RecvEndSecond ==
    /\ pc = "poll"
    /\ g_udp_adapter = "adapter_b"
    /\ second.sock_queue # <<>> => Head(second.sock_queue).len = 0
    /\ second' = [second EXCEPT
                    !.sock_queue = IF @ # <<>> THEN recvfrom(@) ELSE @]
    /\ pc' = "session_events"
    /\ tick' = [tick EXCEPT !.recv = Returned(Len(tick.results)),
                            !.attempts = @ + 1]
    /\ UNCHANGED <<ctx, input_blob, g_udp_adapter, adapter_owner,
                   g_udp_results_cap, heap, eng, sock_queue, ev, ev_left,
                   cb_arg, op, ret, hist>>

(***************************************************************************)
(* The lists the engine returns.  gekko_session_events and                 *)
(* gekko_update_session return an array of pointers and a count; the       *)
(* for loops read the array front to back.  eng.events holds the entries   *)
(* of the array being walked that are not read yet, each named by its      *)
(* distance from the end of the array, so that an array of n entries is    *)
(* <<n, ..., 1>>.  What an entry points at is drawn when the loop reads    *)
(* it.                                                                     *)
(***************************************************************************)
EventList(n) == [k \in 1..n |-> n + 1 - k]

\* NextEvent that reads the array from its end
NextEvent_FromBack(events) == events[Len(events)]

\* events[i] of the for loops: the first entry not read yet
NextEvent(events) == Head(events)

(***************************************************************************)
(* ra_gekkonet_process_session_events.  n is the count the engine reports  *)
(* from gekko_session_events; each event is a pointer that may be NULL.    *)
(***************************************************************************)
\* gekko_network_poll is over: the engine has consumed the received results
PollReturns(t) == [t EXCEPT !.queued = <<>>, !.results = <<>>,
                            !.tokens = <<>>,
                            !.recv = NoRecv, !.attempts = 0,
                            !.registry = <<>>]

SessionEventsBegin(n) ==
    /\ pc = "session_events"
    /\ eng' = [eng EXCEPT !.calls = Append(@, "gekko_session_events"),
                          !.events = EventList(n)]
    /\ ev_left' = n
    /\ pc' = IF n = 0 THEN "game_events" ELSE "session_loop"
    /\ tick' = [PollReturns(tick) EXCEPT !.session_count = n]
    /\ UNCHANGED <<ctx, input_blob, g_udp_adapter, adapter_owner,
                   g_udp_results_cap, heap, sock_queue, ev, cb_arg, op,
                   ret, hist>>
    /\ UNCHANGED second

\* after one event of the list: the next one, or on to the game events
AfterSessionEvent(left) == IF left = 0 THEN "game_events" ELSE "session_loop"

\* ForwardsEvent that does not look whether an observer is installed
ForwardsEvent_IgnoresObserver(c, is_null) == ~is_null

\* lines 798-807: an event that is not NULL goes to the observer, if any
ForwardsEvent(c, is_null) == ~is_null /\ c.session_event_cb # NULL

\* the body of the for loop for one entry; cb_arg is the event pointer the
\* observer is handed
SessionEventStep(is_null) ==
    /\ pc = "session_loop"
    /\ ev_left > 0
    /\ ev_left' = ev_left - 1
    /\ eng' = [eng EXCEPT !.events = Tail(@)]
    /\ IF ForwardsEvent(ctx, is_null)
       THEN /\ pc' = "in_session_event_cb"
            /\ cb_arg' = NextEvent(eng.events)
       ELSE /\ pc' = AfterSessionEvent(ev_left - 1)
            /\ UNCHANGED cb_arg
    /\ tick' = [tick EXCEPT
                  !.slot = NextEvent(eng.events),
                  !.session_read = @ + 1,
                  !.session_events = IF is_null THEN @ ELSE @ + 1,
                  !.session_cbs = IF pc' = "in_session_event_cb" THEN @ + 1
                                  ELSE @]
    /\ UNCHANGED <<ctx, input_blob, g_udp_adapter, adapter_owner,
                   g_udp_results_cap, heap, sock_queue, ev, op, ret, hist>>
    /\ UNCHANGED second

SessionEventCbReturn ==
    /\ pc = "in_session_event_cb"
    /\ pc' = AfterSessionEvent(ev_left)
    /\ cb_arg' = 0
    /\ UNCHANGED <<ctx, input_blob, g_udp_adapter, adapter_owner,
                   g_udp_results_cap, heap, eng, sock_queue, ev, ev_left,
                   tick, op, ret, hist>>
    /\ UNCHANGED second

(***************************************************************************)
(* Game events, as gekko_update_session delivers them.  ptr says whether   *)
(* the event's data pointer (save.state, load.state, adv.inputs) is set,   *)
(* len_ptr whether save.state_len is, len is the length the engine gives   *)
(* (the value state_len points at, load.state_len, adv.input_len) and      *)
(* payload the bytes adv.inputs points at.                                 *)
(***************************************************************************)
SaveEvents ==
    {[type |-> "Save", ptr |-> p, len_ptr |-> TRUE, len |-> n,
      payload |-> <<>>] : p \in BOOLEAN, n \in 0..(MaxStateSize + 1)}
    \cup {[type |-> "Save", ptr |-> TRUE, len_ptr |-> FALSE, len |-> 0,
           payload |-> <<>>]}

LoadEvents ==
    {[type |-> "Load", ptr |-> p, len_ptr |-> FALSE, len |-> n,
      payload |-> <<>>] : p \in BOOLEAN, n \in 0..(MaxStateSize + 1)}

AdvanceEvents ==
    UNION {{[type |-> "Advance", ptr |-> TRUE, len_ptr |-> FALSE, len |-> n,
             payload |-> b] : b \in [1..n -> Bytes]}
           : n \in 0..(MaxInputSize + 1)}
    \cup {[type |-> "Advance", ptr |-> FALSE, len_ptr |-> FALSE, len |-> n,
           payload |-> <<>>] : n \in {0, 1}}

OtherEvents ==
    {[type |-> t, ptr |-> FALSE, len_ptr |-> FALSE, len |-> 0,
      payload |-> <<>>] : t \in {"Empty", "NULL"}}

GameEvents == SaveEvents \cup LoadEvents \cup AdvanceEvents \cup OtherEvents

(***************************************************************************)
(* ra_gekkonet_process_game_events.                                        *)
(***************************************************************************)
\* Invalidate that leaves the pointer as it was
Invalidate_Skipped(c) == c

\* line 749: the current input is published as absent
Invalidate(c) == [c EXCEPT !.current_input = NULL]

GameEventsBegin(n) ==
    /\ pc = "game_events"
    /\ IF ctx.session = NULL
       THEN /\ pc' = "idle"
            /\ UNCHANGED <<ctx, eng, ev_left>>
       ELSE /\ ctx' = Invalidate(ctx)
            /\ eng' = [eng EXCEPT !.calls = Append(@, "gekko_update_session"),
                                  !.events = EventList(n)]
            /\ ev_left' = n
            /\ pc' = IF n = 0 THEN "idle" ELSE "game_loop"
    /\ UNCHANGED <<input_blob, g_udp_adapter, adapter_owner, g_udp_results_cap,
                   heap, sock_queue, ev, cb_arg, tick, op, ret, hist>>
    /\ UNCHANGED second

\* memset(dst, v, n) and memcpy(dst, src, n) on byte sequences
Memset(dst, v, n) == [k \in 1..Len(dst) |-> IF k <= n THEN v ELSE dst[k]]
Memcpy(dst, src, n) == [k \in 1..Len(dst) |-> IF k <= n THEN src[k] ELSE dst[k]]

\* CopyInput without the memset of the short-payload branch
CopyInput_NoZeroFill(buf, e, input_size) ==
    Memcpy(buf, e.payload, IF e.len < input_size THEN e.len ELSE input_size)

\* lines 716-727: the input buffer after an Advance event's payload is copied
CopyInput(buf, e, input_size) ==
    IF e.len < input_size
    THEN Memcpy(Memset(buf, 0, input_size), e.payload, e.len)
    ELSE Memcpy(buf, e.payload, input_size)

\* ra_gekkonet_handle_save gets to the host's save callback
SaveReachesHost(c, e) == c.save_cb # NULL /\ e.ptr /\ e.len_ptr

\* SaveCapacity without the clamp
SaveCapacity_Unclamped(c, e) == e.len

\* lines 659-660: the length handed to the save callback
SaveCapacity(c, e) == IF e.len > c.state_size THEN c.state_size ELSE e.len

\* LoadReachesHost without the readiness check
LoadReachesHost_NoReadyCheck(c, e) == c.load_cb # NULL /\ e.ptr /\ e.len # 0

\* ra_gekkonet_handle_load gets to the host's load callback
LoadReachesHost(c, e) ==
    c.load_cb # NULL /\ c.ready_for_state /\ e.ptr /\ e.len # 0

\* LoadLength clamped to state_size, as the Save capacity is
LoadLength_Clamped(c, e) ==
    IF e.len > c.state_size THEN c.state_size ELSE e.len

\* line 697: the length handed to the load callback is the engine's
LoadLength(c, e) == e.len

\* ra_gekkonet_handle_advance gets past its early returns
AdvanceApplies(c, e) == c.current_input_buf # NULL /\ e.ptr

\* RunsFrame without the check that a callback is installed
RunsFrame_Unchecked(c) == TRUE

\* line 734: the run-frame callback is called when one is installed
RunsFrame(c) == c.run_frame_cb # NULL

\* PublishInput that leaves the pointer as it was
PublishInput_Skipped(c) == c

\* line 729: the buffer is published as the current input
PublishInput(c) == [c EXCEPT !.current_input = "buf"]

\* MarkReady that leaves the flag as it was
MarkReady_Skipped(c) == c

\* line 738: after the advance the session is ready for state events
MarkReady(c) == [c EXCEPT !.ready_for_state = TRUE]

\* the blob an Advance event stands for: its payload cut or zero-padded
ExpectedBlob(e, input_size) ==
    [k \in 1..input_size |-> IF k <= e.len THEN e.payload[k] ELSE 0]

\* the old buffer holds a non-zero byte where the payload does not reach
StaleBytes(buf, e) == \E k \in 1..Len(buf) : k > e.len /\ buf[k] # 0

\* what the model records about a dispatched event e, given the callback
\* the dispatch ended in (new_pc)
NoteEvent(t, c, blob, e, new_pc) ==
    [t EXCEPT
       !.advances = IF e.type = "Advance" THEN @ + 1 ELSE @,
       !.runnable = IF e.type = "Advance" /\ e.ptr /\ c.run_frame_cb # NULL
                    THEN @ + 1 ELSE @,
       !.run_frame_calls = IF new_pc = "in_run_frame_cb" THEN @ + 1 ELSE @,
       !.stale = e.type = "Advance" /\ e.ptr /\ StaleBytes(blob, e),
       !.last_advance = IF e.type = "Advance" /\ e.ptr
                        THEN [present |-> TRUE,
                              bytes |-> ExpectedBlob(e, c.input_size)]
                        ELSE @]

\* the body of the for loop for one event, up to the host callback if any
GameEventStep(e) ==
    /\ pc = "game_loop"
    /\ ev_left > 0
    /\ ev' = e
    /\ ev_left' = ev_left - 1
    /\ CASE e.type = "Save" ->
              /\ IF SaveReachesHost(ctx, e)
                 THEN pc' = "in_save_cb" /\ cb_arg' = SaveCapacity(ctx, e)
                 ELSE UNCHANGED <<pc, cb_arg>>
              /\ UNCHANGED <<ctx, input_blob>>
         [] e.type = "Load" ->
              /\ IF LoadReachesHost(ctx, e)
                 THEN pc' = "in_load_cb" /\ cb_arg' = LoadLength(ctx, e)
                 ELSE UNCHANGED <<pc, cb_arg>>
              /\ UNCHANGED <<ctx, input_blob>>
         [] e.type = "Advance" ->
              IF AdvanceApplies(ctx, e)
              THEN /\ input_blob' = CopyInput(input_blob, e, ctx.input_size)
                   /\ IF RunsFrame(ctx)
                      THEN /\ pc' = "in_run_frame_cb"
                           /\ ctx' = PublishInput(ctx)
                      ELSE /\ pc' = pc
                           /\ ctx' = MarkReady(PublishInput(ctx))
                   /\ UNCHANGED cb_arg
              ELSE UNCHANGED <<ctx, input_blob, pc, cb_arg>>
         [] OTHER -> UNCHANGED <<ctx, input_blob, pc, cb_arg>>
    /\ eng' = [eng EXCEPT !.events = Tail(@)]
    /\ tick' = [NoteEvent(tick, ctx, input_blob, e, pc')
                   EXCEPT !.slot = NextEvent(eng.events)]
    /\ hist' = IF e.type = "Advance" THEN [hist EXCEPT !.advance = TRUE]
               ELSE hist
    /\ UNCHANGED <<g_udp_adapter, adapter_owner, g_udp_results_cap, heap,
                   sock_queue, op, ret>>
    /\ UNCHANGED second

\* AfterSave that flips the readiness when the callback fails
AfterSave_TogglesOnFailure(c, ok) ==
    [c EXCEPT !.ready_for_state = IF ok THEN TRUE ELSE ~@]

\* AfterSave that makes the session ready whatever the callback returned
AfterSave_Always(c, ok) == [c EXCEPT !.ready_for_state = TRUE]

\* AfterSave that takes the readiness from the callback's result
AfterSave_ResetsOnFailure(c, ok) == [c EXCEPT !.ready_for_state = ok]

\* lines 665-674: a successful save makes the session ready for state events
AfterSave(c, ok) == IF ok THEN [c EXCEPT !.ready_for_state = TRUE] ELSE c

\* the save callback returns; ok is its result
SaveCbReturn(ok) ==
    /\ pc = "in_save_cb"
    /\ pc' = "game_loop"
    /\ cb_arg' = 0
    /\ ctx' = AfterSave(ctx, ok)
    /\ hist' = IF ok THEN [hist EXCEPT !.save_ok = TRUE] ELSE hist
    /\ UNCHANGED <<input_blob, g_udp_adapter, adapter_owner, g_udp_results_cap,
                   heap, eng, sock_queue, ev, ev_left, tick, op, ret>>
    /\ UNCHANGED second

\* the load callback returns; its result is only logged
LoadCbReturn ==
    /\ pc = "in_load_cb"
    /\ pc' = "game_loop"
    /\ cb_arg' = 0
    /\ UNCHANGED <<ctx, input_blob, g_udp_adapter, adapter_owner,
                   g_udp_results_cap, heap, eng, sock_queue, ev, ev_left, tick,
                   op, ret, hist>>
    /\ UNCHANGED second

\* the run-frame callback returns; line 738 follows
RunFrameCbReturn ==
    /\ pc = "in_run_frame_cb"
    /\ pc' = "game_loop"
    /\ ctx' = MarkReady(ctx)
    /\ UNCHANGED <<input_blob, g_udp_adapter, adapter_owner, g_udp_results_cap,
                   heap, eng, sock_queue, ev, ev_left, cb_arg, tick, op, ret,
                   hist>>
    /\ UNCHANGED second

\* the for loop is over: ra_gekkonet_update returns
UpdateEnd ==
    /\ pc = "game_loop"
    /\ ev_left = 0
    /\ pc' = "idle"
    /\ ev' = NoEvent
    /\ UNCHANGED <<ctx, input_blob, g_udp_adapter, adapter_owner,
                   g_udp_results_cap, heap, eng, sock_queue, ev_left, cb_arg,
                   tick, op, ret, hist>>
    /\ UNCHANGED second

(***************************************************************************)
(* The session manager, the registry and the transport: the host sets a   *)
(* session up, registers actors, and polls while datagrams arrive; the     *)
(* engine has no events to deliver.  A spectator registers without an      *)
(* address text here: the wrapper only hands that text on to the engine.   *)
(***************************************************************************)
SessionParams ==
    [num_players : 1..MaxPlayers, input_size : {1}, state_size : {1}]

Registrations ==
    {r \in [type : PlayerTypes, addr : HostAddrs] :
        r.type = "Spectator" => r.addr = <<>>}

Next ==
    \/ \E p \in SessionParams, o \in InitOutcomes :
          ra_gekkonet_init(p, "cb", "cb", o)
    \/ ra_gekkonet_deinit
    \/ \E r \in Registrations, accept \in BOOLEAN :
          ra_gekkonet_add_actor(r.type, r.addr, accept)
    \/ ra_gekkonet_set_local_delay
    \/ \E has_blob \in BOOLEAN : ra_gekkonet_push_local_input(has_blob)
    \/ \E d \in {x \in Datagrams : x.len > 0} : DatagramArrives(d)
    \/ UpdateBegin
    \/ \E accept \in BOOLEAN : RecvDatagram(accept)
    \/ RecvEnd
    \/ SessionEventsBegin(0)
    \/ GameEventsBegin(0)

Spec == Init /\ [][Next]_vars

(***************************************************************************)
(* The event dispatcher: a session with no actor traffic, to which the     *)
(* engine delivers game events of every shape.                             *)
(***************************************************************************)
DispatchParams ==
    [num_players : {1}, input_size : 1..MaxInputSize,
     state_size : 1..MaxStateSize]

Callbacks == {NULL, "cb"}

NextDispatch ==
    \/ \E p \in DispatchParams, s \in Callbacks, l \in Callbacks,
          o \in InitOutcomes : ra_gekkonet_init(p, s, l, o)
    \/ ra_gekkonet_deinit
    \/ \E cb \in Callbacks : ra_gekkonet_set_run_frame_cb(cb)
    \/ UpdateBegin
    \/ RecvEnd
    \/ SessionEventsBegin(0)
    \/ \E n \in 0..MaxEvents : GameEventsBegin(n)
    \/ \E e \in GameEvents : GameEventStep(e)
    \/ \E ok \in BOOLEAN : SaveCbReturn(ok)
    \/ LoadCbReturn
    \/ RunFrameCbReturn
    \/ UpdateEnd

SpecDispatch == Init /\ [][NextDispatch]_vars

(***************************************************************************)
(* The whole tick: a session whose engine delivers session events and      *)
(* well-formed game events, with an observer and a run-frame callback the   *)
(* host installs or removes between ticks, in which it also registers      *)
(* local actors and spectators and pushes local input.                     *)
(***************************************************************************)
TickParams == [num_players : {1}, input_size : {1}, state_size : {1}]

\* a Save, a Load and an Advance that carry their data, and an Empty event
TickEvents ==
    {e \in GameEvents :
        \/ e.type = "Save" /\ e.ptr /\ e.len_ptr /\ e.len = 1
        \/ e.type = "Load" /\ e.ptr /\ e.len = 1
        \/ e.type = "Advance" /\ e.ptr /\ e.payload = <<1>>
        \/ e.type = "Empty"}

NextTick ==
    \/ \E p \in TickParams : ra_gekkonet_init(p, "cb", "cb", "ok")
    \/ ra_gekkonet_deinit
    \/ \E cb \in Callbacks : ra_gekkonet_set_run_frame_cb(cb)
    \/ \E cb \in Callbacks : ra_gekkonet_set_session_event_cb(cb)
    \/ \E type \in {"LocalPlayer", "Spectator"}, accept \in BOOLEAN :
          ra_gekkonet_add_actor(type, <<>>, accept)
    \/ \E has_blob \in BOOLEAN : ra_gekkonet_push_local_input(has_blob)
    \/ UpdateBegin
    \/ RecvEnd
    \/ \E n \in 0..MaxEvents : SessionEventsBegin(n)
    \/ \E is_null \in BOOLEAN : SessionEventStep(is_null)
    \/ SessionEventCbReturn
    \/ \E n \in 0..MaxEvents : GameEventsBegin(n)
    \/ \E e \in TickEvents : GameEventStep(e)
    \/ \E ok \in BOOLEAN : SaveCbReturn(ok)
    \/ LoadCbReturn
    \/ RunFrameCbReturn
    \/ UpdateEnd

SpecTick == Init /\ [][NextTick]_vars

(***************************************************************************)
(* The whole tick with an observer that may call ra_gekkonet_deinit from   *)
(* inside its callback.                                                    *)
(***************************************************************************)
NextObserver ==
    \/ NextTick
    \/ DeinitInObserver

SpecObserver == Init /\ [][NextObserver]_vars

(***************************************************************************)
(* Two sessions in one process: the host sets up the first, then the       *)
(* second, tears either down, and runs ticks of the first while datagrams  *)
(* arrive on both sockets.  While g_udp_adapter is the second session's    *)
(* adapter the poll of the first receives through it.                      *)
(***************************************************************************)
NextTwo ==
    \/ \E p \in TickParams : ra_gekkonet_init(p, "cb", "cb", "ok")
    \/ \E p \in TickParams : InitSecond(p)
    \/ ra_gekkonet_deinit
    \/ DeinitSecond
    \/ \E d \in {x \in Datagrams : x.len > 0} : DatagramArrives(d)
    \/ \E d \in {x \in Datagrams : x.len > 0} : DatagramArrivesSecond(d)
    \/ UpdateBegin
    \/ \E accept \in BOOLEAN :
          g_udp_adapter # "adapter_b" /\ RecvDatagram(accept)
    \/ g_udp_adapter # "adapter_b" /\ RecvEnd
    \/ \E accept \in BOOLEAN : RecvDatagramSecond(accept)
    \/ RecvEndSecond
    \/ SessionEventsBegin(0)
    \/ GameEventsBegin(0)

SpecTwo == Init /\ [][NextTwo]_vars

(***************************************************************************)
(* The transport in the tick: datagrams of every payload length arrive     *)
(* from two endpoints, one of which the host may have registered as a      *)
(* remote player or as a spectator, and the engine delivers session events *)
(* to an observer.                                                         *)
(***************************************************************************)
NetRegistrations ==
    {[type |-> "LocalPlayer", addr |-> <<>>]}
    \cup {[type |-> t, addr |-> FormatAddr("10.0.0.2", 7000)] :
             t \in {"RemotePlayer", "Spectator"}}

\* datagrams with a payload from either endpoint, and an empty one
NetDatagrams == {d \in Datagrams : d.len > 0 \/ d.src.ip = "10.0.0.2"}

NextNet ==
    \/ \E p \in TickParams : ra_gekkonet_init(p, "cb", "cb", "ok")
    \/ ra_gekkonet_deinit
    \/ ra_gekkonet_set_session_event_cb("cb")
    \/ \E r \in NetRegistrations, accept \in BOOLEAN :
          ra_gekkonet_add_actor(r.type, r.addr, accept)
    \/ \E d \in NetDatagrams : DatagramArrives(d)
    \/ UpdateBegin
    \/ \E accept \in BOOLEAN : RecvDatagram(accept)
    \/ RecvEnd
    \/ \E n \in {0, 1} : SessionEventsBegin(n)
    \/ SessionEventStep(FALSE)
    \/ SessionEventCbReturn
    \/ GameEventsBegin(0)

SpecNet == Init /\ [][NextNet]_vars

(***************************************************************************)
(* The receive cycle: datagrams of every payload length arrive, the poll   *)
(* receives them, and recvfrom may fail while some are pending.  The code  *)
(* of a tick is straight-line and its socket is non-blocking (lines        *)
(* 186-203), so a tick that has begun goes on to its next step: the steps  *)
(* of the tick are weakly fair.                                            *)
(***************************************************************************)
ReceiveStep ==
    \/ \E accept \in BOOLEAN : RecvDatagram(accept)
    \/ RecvEnd
    \/ RecvFails

NextRecv ==
    \/ \E p \in TickParams : ra_gekkonet_init(p, "cb", "cb", "ok")
    \/ ra_gekkonet_deinit
    \/ \E d \in NetDatagrams : DatagramArrives(d)
    \/ UpdateBegin
    \/ ReceiveStep
    \/ SessionEventsBegin(0)
    \/ GameEventsBegin(0)

SpecRecv ==
    /\ Init /\ [][NextRecv]_vars
    /\ WF_vars(ReceiveStep)
    /\ WF_vars(SessionEventsBegin(0))
    /\ WF_vars(GameEventsBegin(0))

(***************************************************************************)
(* The send path: in the poll the engine sends to addresses of every       *)
(* shape.                                                                  *)
(***************************************************************************)
Port7000 == <<"7", "0", "0", "0">>

SendTexts ==
    {<<>>, <<"10.0.0.2">>, <<"10.0.0.2", "7", "0", "0", "0">>,
     <<":">> \o Port7000, <<":">>,
     <<"10.0.0.2", ":">>, <<"10.0.0.2", ":", "x">>,
     <<"10.0.0.2", ":", "x", "7">>,
     <<"10.0.0.2", ":">> \o Port7000,
     <<"10.0.0.3", ":">> \o Port7000,
     <<"10.0.0.2", ":">> \o Port7000 \o <<"x">>,
     <<"10.0.0.2", ":">> \o Port7000 \o <<"0">>,
     <<"10.0.0.2", ":", "1", ":">> \o Port7000,
     <<"10.0.0.2", "x", ":">> \o Port7000,
     <<"example", ":">> \o Port7000,
     <<"x", ":">> \o Port7000,
     <<"10.0.0.2", ":", ZeroRun>> \o Port7000,
     <<"10.0.0.2", ":", ZeroRun, "0">> \o Port7000,
     <<"10.0.0.2", ":", ZeroRun, "0", "0">> \o Port7000}

SendAddrs == [data : SendTexts, nul : BOOLEAN]

NextSend ==
    \/ \E p \in TickParams : ra_gekkonet_init(p, "cb", "cb", "ok")
    \/ ra_gekkonet_deinit
    \/ UpdateBegin
    \/ \E a \in SendAddrs, length \in {0, 1} : ra_gekkonet_udp_send(a, length)
    \/ RecvEnd
    \/ SessionEventsBegin(0)
    \/ GameEventsBegin(0)

SpecSend == Init /\ [][NextSend]_vars

(***************************************************************************)
(* Properties of the event dispatcher, checked under SpecDispatch.         *)
(***************************************************************************)

\* C1: whenever the host's save callback is running for a Save event, the
\* capacity it was given is the smaller of the length the engine requested
\* and the session's state_size, so it is never above state_size.
C1_SaveCapacityClamped ==
    pc = "in_save_cb" =>
        /\ ev.type = "Save"
        /\ cb_arg = Min(ev.len, ctx.state_size)
        /\ cb_arg <= ctx.state_size

\* a save callback running for a request above state_size
C1_Witness ==
    /\ pc = "in_save_cb"
    /\ ev.len > ctx.state_size
    /\ cb_arg = ctx.state_size

\* C2: while no save callback has succeeded and no Advance event has been
\* dispatched since init, the load callback is not running, and a Load event
\* that has just been dispatched left the loop going on an Active session.
C2_NoLoadBeforeSaveOrAdvance ==
    (~hist.save_ok /\ ~hist.advance) =>
        /\ pc # "in_load_cb"
        /\ ev.type = "Load" => (pc = "game_loop" /\ ctx.active)

\* a Load event with a state and a length, a load callback installed, skipped
\* because nothing was saved or advanced yet
C2_Witness ==
    /\ ~hist.save_ok /\ ~hist.advance
    /\ ev.type = "Load" /\ ev.ptr /\ ev.len > 0
    /\ ctx.load_cb # NULL
    /\ pc = "game_loop"

\* C3: once an Advance event carrying an input pointer and length L has been
\* dispatched, the session's input blob has input_size bytes, the first
\* min(L, input_size) of them the payload's and every byte from L on zero.
C3_InputBlobPaddedOrTruncated ==
    (ev.type = "Advance" /\ ev.ptr) =>
        /\ Len(input_blob) = ctx.input_size
        /\ \A k \in 1..ctx.input_size :
              /\ k <= Min(ev.len, ctx.input_size) => input_blob[k] = ev.payload[k]
              /\ k > ev.len => input_blob[k] = 0

\* a short Advance dispatched over a buffer that held non-zero bytes beyond
\* the payload's length
C3_Witness ==
    /\ ev.type = "Advance" /\ ev.ptr
    /\ ev.len < ctx.input_size
    /\ tick.stale
    /\ \A k \in 1..ctx.input_size : k > ev.len => input_blob[k] = 0

C5_CurrentInputIsAdvanceBlob ==
    /\ pc = "in_run_frame_cb" =>
          ra_gekkonet_get_current_input =
             [present |-> TRUE, bytes |-> ExpectedBlob(ev, ctx.input_size)]
    /\ (pc = "idle" /\ ctx.active /\ tick.last_advance.present) =>
          ra_gekkonet_get_current_input = tick.last_advance

\* after a tick whose two Advance events each ran a frame, the current input
\* is the second one's blob, which is not all zero
C5_Witness ==
    /\ pc = "idle" /\ ctx.active
    /\ tick.run_frame_calls = 2
    /\ tick.last_advance.present
    /\ ra_gekkonet_get_current_input = tick.last_advance
    /\ \E k \in 1..ctx.input_size : tick.last_advance.bytes[k] # 0

C24_FailedSaveAndLoadKeepReadiness ==
    [][/\ (/\ pc = "game_loop" /\ ev_left' = ev_left - 1
           /\ ev'.type \in {"Save", "Load"})
             => (ctx' = ctx /\ input_blob' = input_blob)
       /\ pc = "in_load_cb" => (ctx' = ctx /\ input_blob' = input_blob)
       /\ pc = "in_save_cb" =>
             /\ input_blob' = input_blob
             /\ ctx'.current_input = ctx.current_input
             /\ ctx.ready_for_state => ctx'.ready_for_state
             /\ ~hist'.save_ok =>
                   ctx'.ready_for_state = ctx.ready_for_state]_vars

\* a save callback has just failed after the Advance event before it in the
\* tick: the session is still ready, no save has succeeded, and the current
\* input is still the blob of that Advance, which is not all zero
C24_Witness ==
    /\ pc = "game_loop"
    /\ ev.type = "Save" /\ ev.ptr /\ ev.len_ptr
    /\ ctx.save_cb # NULL
    /\ ~hist.save_ok
    /\ tick.advances = 1
    /\ ctx.ready_for_state
    /\ ra_gekkonet_get_current_input = tick.last_advance
    /\ \E k \in 1..Len(input_blob) : input_blob[k] # 0

\* C26: the dispatch of a Load event that carries a state pointer and a
\* length other than 0, on a session that is ready and has a load callback,
\* enters the load callback with the very length the engine gave, above
\* state_size or not; the dispatch of a Load event without a pointer or with
\* length 0 enters no callback; and the load callback returns to the loop
\* with the same events left, so it runs once for the event.
C26_LoadGetsEngineLength ==
    /\ [](pc = "in_load_cb" =>
             (ev.type = "Load" /\ ev.ptr /\ ev.len # 0 /\ cb_arg = ev.len))
    /\ [][/\ (/\ pc = "game_loop" /\ ev_left' = ev_left - 1
              /\ ev'.type = "Load"
              /\ ctx.ready_for_state /\ ctx.load_cb # NULL
              /\ ev'.ptr /\ ev'.len # 0)
                => (pc' = "in_load_cb" /\ cb_arg' = ev'.len)
          /\ (/\ pc = "game_loop" /\ ev_left' = ev_left - 1
              /\ ev'.type = "Load"
              /\ (~ev'.ptr \/ ev'.len = 0))
                => pc' = "game_loop"
          /\ pc = "in_load_cb" =>
                (pc' = "game_loop" /\ ev_left' = ev_left /\ ev' = ev)]_vars

\* the load callback running with a length above state_size
C26_Witness ==
    /\ pc = "in_load_cb"
    /\ ev.type = "Load"
    /\ ev.len > ctx.state_size
    /\ cb_arg = ev.len

\* C31 as stated: the load callback runs only on a session that is ready,
\* and a session becomes ready only by the successful return of a save
\* callback or by the return of a run-frame callback, that is after a frame
\* was actually run: the dispatch of an Advance event that calls no frame
\* does not make a later Load reach the host.
C31_LoadOnlyAfterSaveOrFrame ==
    /\ [](pc = "in_load_cb" => ctx.ready_for_state)
    /\ [][(~ctx.ready_for_state /\ ctx'.ready_for_state)
            => \/ pc = "in_save_cb" /\ hist'.save_ok
               \/ pc = "in_run_frame_cb"]_vars

\* C31 as amended: the load callback runs only on a session that is ready;
\* the steps that make a session ready are the successful return of a save
\* callback, the return of the run-frame callback of an Advance event that
\* carries an input pointer, and the dispatch of such an Advance event while
\* no run-frame callback is installed, which calls no frame and makes the
\* session ready all the same; and on a ready session with a load callback
\* a Load event with a state pointer and a length reaches the host.
C31_LoadOnlyWhenReady ==
    /\ [](pc = "in_load_cb" => ctx.ready_for_state)
    /\ [][/\ (~ctx.ready_for_state /\ ctx'.ready_for_state)
             => \/ /\ pc = "in_save_cb" /\ hist'.save_ok
                \/ /\ pc = "in_run_frame_cb"
                   /\ ev.type = "Advance" /\ ev.ptr
                   /\ tick.run_frame_calls > 0
                \/ /\ pc = "game_loop" /\ pc' = "game_loop"
                   /\ ev'.type = "Advance" /\ ev'.ptr
                   /\ ctx.run_frame_cb = NULL
          /\ (/\ pc = "game_loop" /\ ev_left' = ev_left - 1
              /\ ev'.type = "Advance" /\ ev'.ptr
              /\ ctx.current_input_buf # NULL /\ ctx.run_frame_cb = NULL)
                => (/\ ctx'.ready_for_state
                    /\ pc' = "game_loop"
                    /\ tick'.run_frame_calls = tick.run_frame_calls)
          /\ (/\ pc = "game_loop" /\ ev_left' = ev_left - 1
              /\ ev'.type = "Load" /\ ev'.ptr /\ ev'.len # 0
              /\ ctx.load_cb # NULL /\ ctx.ready_for_state)
                => pc' = "in_load_cb"]_vars

\* the load callback running in the first tick of a session on which no
\* save has succeeded and no run-frame callback is installed: the Advance
\* event before the Load in that tick called no frame and made the session
\* ready
C31_Witness ==
    /\ pc = "in_load_cb"
    /\ ~hist.save_ok
    /\ ctx.run_frame_cb = NULL
    /\ tick.advances = 1 /\ tick.run_frame_calls = 0
    /\ tick.last_advance.present
    /\ ctx.ready_for_state

(***************************************************************************)
(* Properties of the session manager and the registry, checked under Spec. *)
(***************************************************************************)

\* C6 as stated: in every state of an Active session the local and remote
\* actor counts together are at most num_players.
C6_ActorCountWithinCapacity ==
    ctx.active =>
        ctx.local_actor_count + ctx.remote_actor_count <= ctx.num_players

\* C7: a call of ra_gekkonet_add_actor for a RemotePlayer on a session whose
\* local and remote counts together have reached num_players returns a
\* negative handle, makes no engine call and leaves the context (counters and
\* registry included) as it was.
C7_RemoteRejectedAtCapacity ==
    [][(/\ pc = "idle"
        /\ op'.name = "add_actor" /\ op'.type = "RemotePlayer"
        /\ ctx.session # NULL
        /\ ctx.local_actor_count + ctx.remote_actor_count >= ctx.num_players)
       => (/\ ret' < 0
           /\ eng'.calls = <<>>
           /\ eng'.next_handle = eng.next_handle
           /\ ctx' = ctx
           /\ hist' = hist)]_vars

\* a Remote registration just refused, without an engine call, on a session
\* that is full
C7_Witness ==
    /\ op.name = "add_actor" /\ op.type = "RemotePlayer"
    /\ ctx.session # NULL
    /\ ctx.local_actor_count + ctx.remote_actor_count >= ctx.num_players
    /\ ret < 0
    /\ eng.calls = <<>>

\* how many registry entries hold the text a
Entries(a) == Cardinality({k \in 1..Len(ctx.remote_addrs) :
                              ctx.remote_addrs[k] = a})

C9_DeinitIdempotent ==
    [][(op.name = "deinit" /\ op'.name = "deinit")
       => (/\ ctx' = ctx
           /\ UNCHANGED <<input_blob, g_udp_adapter, adapter_owner,
                          g_udp_results_cap, sock_queue, heap>>
           /\ eng'.calls = <<>>
           /\ ~heap'.bad_free)]_vars

\* a second deinit just made on a session that had been set up, had remote
\* actors registered and was torn down by the first
C9_Witness ==
    /\ op.name = "deinit" /\ op.after_deinit
    /\ \E a \in HostAddrs : hist.remote_regs[a] > 0
    /\ ~ctx.active
    /\ heap.live = {}

\* C10 as stated: when ra_gekkonet_init has just failed, the session is not
\* Active, holds no engine handle, and nothing it acquired is still held.
C10_FailedInitReleasesAll ==
    (op.name = "init" /\ ret = 0) =>
        /\ ~ctx.active
        /\ ctx.session = NULL
        /\ heap.live = {}

\* C20: a call of ra_gekkonet_add_actor, ra_gekkonet_push_local_input,
\* ra_gekkonet_set_local_delay or ra_gekkonet_update on a session that is not
\* Active, and a ra_gekkonet_push_local_input without a blob on any session,
\* makes no engine call, starts no tick and no callback, and leaves the
\* context, the buffers, the socket and the histories as they were; the
\* add_actor returns a negative handle and the push_local_input false.
C20_InertWhenNotActive ==
    [][(/\ pc = "idle"
        /\ op'.name \in {"add_actor", "push_local_input", "set_local_delay",
                          "update"}
        /\ \/ ~ctx.active
           \/ op'.name = "push_local_input" /\ op'.type = NULL)
       => (/\ eng'.calls = <<>>
           /\ eng'.next_handle = eng.next_handle
           /\ pc' = "idle"
           /\ ctx' = ctx
           /\ UNCHANGED <<input_blob, heap, sock_queue, g_udp_adapter,
                          adapter_owner, tick, hist>>
           /\ op'.name = "add_actor" => ret' < 0
           /\ op'.name = "push_local_input" => ret' = 0)]_vars

\* a push_local_input with a blob, made right after the deinit of a session
\* that had remote actors, has returned false without an engine call
C20_Witness ==
    /\ op.name = "push_local_input" /\ op.type = "blob"
    /\ op.after_deinit
    /\ \E a \in HostAddrs : hist.remote_regs[a] > 0
    /\ ~ctx.active
    /\ ret = 0
    /\ eng.calls = <<>>

\* C21: a ra_gekkonet_deinit of an Active session leaves it not Active,
\* with the engine handle destroyed and cleared, the registry empty, the
\* input buffer released, the current input absent and both actor counts 0;
\* the adapter is destroyed, with its socket, its result list and the global
\* that names it, when the session owns it, and is left as it was, globals
\* and socket included, when it does not; nothing is released twice.
C21_DeinitDestroys ==
    [][(pc = "idle" /\ op'.name = "deinit" /\ ctx.active)
       => (/\ ~ctx'.active
           /\ ctx'.session = NULL
           /\ ctx.session # NULL =>
                 (eng'.calls = <<"gekko_destroy">> /\ "engine" \notin heap'.live)
           /\ IF ctx.owns_adapter /\ ctx.adapter # NULL
              THEN /\ ctx'.adapter = NULL
                   /\ "adapter" \notin heap'.live
                   /\ g_udp_adapter = ctx.adapter => g_udp_adapter' = NULL
                   /\ adapter_owner' = NULL
                   /\ g_udp_results_cap' = 0
                   /\ sock_queue' = <<>>
              ELSE /\ ctx'.adapter = ctx.adapter
                   /\ "adapter" \in heap'.live <=> "adapter" \in heap.live
                   /\ UNCHANGED <<g_udp_adapter, adapter_owner,
                                  g_udp_results_cap, sock_queue>>
           /\ ctx'.remote_addrs = <<>>
           /\ ctx'.current_input_buf = NULL
           /\ "input_buf" \notin heap'.live
           /\ ctx'.current_input = NULL
           /\ ctx'.local_actor_count = 0
           /\ ctx'.remote_actor_count = 0
           /\ ~heap'.bad_free)]_vars

\* a deinit has just destroyed the engine of a session that had a local and
\* a remote actor and a registry entry: nothing is held any more
C21_Witness ==
    /\ op.name = "deinit"
    /\ eng.calls = <<"gekko_destroy">>
    /\ eng.next_handle >= 2
    /\ \E a \in HostAddrs \ {<<>>} : hist.remote_regs[a] > 0
    /\ ~ctx.active
    /\ ctx.adapter = NULL /\ g_udp_adapter = NULL
    /\ ctx.remote_addrs = <<>>
    /\ heap.live = {}

NewAddrs == SubSeq(ctx.remote_addrs, Len(tick.registry) + 1,
                   Len(ctx.remote_addrs))

\* the room for remote players there was when the poll began
FreeSlots == ctx.num_players - ctx.local_actor_count
                - (ctx.remote_actor_count - Len(NewAddrs))

RECURSIVE FirstSeen(_, _)
\* the source address texts of the datagrams q that are not in seen, each
\* once, in the order in which they first arrive
FirstSeen(q, seen) ==
    IF q = <<>> THEN <<>>
    ELSE LET a == FormatAddr(Head(q).src.ip, Head(q).src.port)
         IN  IF a \in seen THEN FirstSeen(Tail(q), seen)
             ELSE <<a>> \o FirstSeen(Tail(q), seen \cup {a})

\* the senders that were unknown when the poll began
UnknownSenders ==
    FirstSeen(tick.queued, {tick.registry[k] : k \in 1..Len(tick.registry)})

\* how many times the engine was asked for an actor in this tick
Asked == Len(SelectSeq(eng.calls, LAMBDA c : c = "gekko_add_actor"))

C34_SameTokenOnBothPaths ==
    \A k \in 1..Len(tick.tokens) :
        \A t \in hist.remote_tokens :
            t.data = tick.tokens[k].data =>
                /\ t = tick.tokens[k]
                /\ AddrSize(t) = AddrSize(tick.tokens[k])

(***************************************************************************)
(* Properties of the whole tick, checked under SpecTick.                   *)
(***************************************************************************)
GameCbStates == {"in_save_cb", "in_load_cb", "in_run_frame_cb"}

\* the engine calls of the tick so far, registrations left out
TickCalls == SelectSeq(eng.calls, LAMBDA c : c # "gekko_add_actor")

\* C11: while an observer callback runs, the tick has called the engine's
\* network poll and then fetched the session events, and has not fetched the
\* game events yet; while a game-event callback runs, the poll, the session
\* events and the game events were fetched in that order and every session
\* event of the tick has been read and, with an observer installed,
\* forwarded; and an update just called on a session that is not Active has
\* returned without an engine call or a callback.
C11_TickOrder ==
    /\ pc = "in_session_event_cb" =>
          TickCalls = <<"gekko_network_poll", "gekko_session_events">>
    /\ pc \in GameCbStates =>
          /\ TickCalls = <<"gekko_network_poll", "gekko_session_events",
                           "gekko_update_session">>
          /\ tick.session_read = tick.session_count
          /\ ctx.session_event_cb # NULL =>
                 tick.session_cbs = tick.session_events
    /\ (op.name = "update" /\ ~ctx.active) =>
          (pc = "idle" /\ eng.calls = <<>>)

\* a game-event callback running in a tick that forwarded two session events
C11_Witness ==
    /\ pc \in GameCbStates
    /\ tick.session_cbs = 2

\* C12: the entry of the engine's game-event array that was dispatched last
\* is the one right before the entries not read yet, so the array is read
\* front to back without a gap; and a host callback that is running is the
\* one of the event dispatched last.
C12_GameEventsInOrder ==
    (pc \in {"game_loop"} \cup GameCbStates /\ ev.type # "none") =>
        /\ tick.slot = ev_left + 1
        /\ pc = "in_save_cb" => ev.type = "Save"
        /\ pc = "in_load_cb" => ev.type = "Load"
        /\ pc = "in_run_frame_cb" => ev.type = "Advance"

\* the load callback of the second of two events running after the first, an
\* Advance, ran its frame
C12_Witness ==
    /\ pc = "in_load_cb"
    /\ ev_left = 0 /\ tick.slot = 1
    /\ tick.advances = 1 /\ tick.run_frame_calls = 1

\* C13: no step of an Active session takes ready_for_state from true to
\* false; and a Save event that carries its state buffer and length,
\* dispatched after an Advance event of the same session while a save
\* callback is installed, gets to the save callback.
C13_ReadyStaysSet ==
    [][/\ (ctx.active /\ ctx'.active /\ ctx.ready_for_state)
             => ctx'.ready_for_state
       /\ (/\ pc = "game_loop" /\ ev_left' = ev_left - 1
           /\ ev'.type = "Save" /\ ev'.ptr /\ ev'.len_ptr
           /\ ctx.save_cb # NULL
           /\ hist.advance)
             => pc' = "in_save_cb"]_vars

\* a save callback has just failed, no save ever succeeded, and the session
\* is still ready from an earlier Advance
C13_Witness ==
    /\ pc = "game_loop"
    /\ ev.type = "Save"
    /\ ~hist.save_ok /\ hist.advance
    /\ ctx.ready_for_state

C19_SessionEventsForwarded ==
    /\ [](/\ pc = "in_session_event_cb" =>
                /\ ctx.session_event_cb # NULL
                /\ cb_arg = tick.slot
                /\ tick.slot = ev_left + 1
          /\ pc \in {"session_loop", "in_session_event_cb", "game_events"} =>
                /\ tick.session_read = tick.session_count - ev_left
                /\ tick.session_cbs = IF ctx.session_event_cb # NULL
                                      THEN tick.session_events ELSE 0
          /\ pc = "game_events" => tick.session_read = tick.session_count)
    /\ [][(pc = "session_loop" /\ ctx.session_event_cb = NULL)
            => (/\ ctx' = ctx
                /\ input_blob' = input_blob
                /\ hist' = hist
                /\ pc' \in {"session_loop", "game_events"})]_vars

\* the session events are over with two events forwarded to the observer
C19_Witness ==
    /\ pc = "game_events"
    /\ tick.session_count = 2
    /\ tick.session_cbs = 2

\* C22: ready_for_state is false when ra_gekkonet_init has just succeeded;
\* it is true only if, since the last init, a save callback returned success
\* or an Advance event was dispatched; and the only steps that take it from
\* false to true are the successful return of a save callback and the end of
\* the dispatch of an Advance event (the return of its run-frame callback,
\* or the event itself when no callback is installed): no Load, failed Save,
\* Empty event, session event, registration or input push does.
C22_ReadyOnlyAfterSaveOrAdvance ==
    /\ []((op.name = "init" /\ ret = 1) => ~ctx.ready_for_state)
    /\ [](ctx.ready_for_state => (hist.save_ok \/ hist.advance))
    /\ [][(~ctx.ready_for_state /\ ctx'.ready_for_state)
            => \/ /\ pc = "in_save_cb" /\ pc' = "game_loop"
                  /\ ~hist.save_ok /\ hist'.save_ok
               \/ /\ pc = "in_run_frame_cb" /\ pc' = "game_loop"
                  /\ ev.type = "Advance"
               \/ /\ pc = "game_loop" /\ pc' = "game_loop"
                  /\ ev_left' = ev_left - 1
                  /\ ev'.type = "Advance"]_vars

\* a save callback has just failed on a session that has a local actor and
\* forwarded a session event in this tick: it is still not ready
C22_Witness ==
    /\ ctx.active
    /\ pc = "game_loop" /\ ev.type = "Save"
    /\ ctx.local_actor_count >= 1
    /\ tick.session_cbs >= 1
    /\ ~ctx.ready_for_state

C32_QuietAfterDeinitInObserver ==
    [][(pc # "idle" /\ op.name = "deinit")
          => /\ pc' # pc => pc' \notin {"in_session_event_cb", "in_save_cb",
                                        "in_load_cb", "in_run_frame_cb"}
             /\ eng'.events = eng.events]_vars

(***************************************************************************)
(* Properties of two sessions in one process, checked under SpecTwo.       *)
(***************************************************************************)

\* C33: with a second session set up after the first, whenever the engine
\* of the first session is in its poll the adapter that the send and the
\* receive function use is the first session's own, also after a deinit of
\* the second session; and no step of that poll changes anything of the
\* second session: it takes no datagram from its socket and registers no
\* actor with it.
C33_SessionsKeepOwnTransport ==
    /\ [](pc = "poll" => g_udp_adapter = ctx.adapter)
    /\ [][pc = "poll" => second' = second]_vars

(***************************************************************************)
(* Properties of the transport in the tick, checked under SpecNet.         *)
(***************************************************************************)

\* the text of the source address of the datagram at the head of the socket
HeadAddr == FormatAddr(Head(sock_queue).src.ip, Head(sock_queue).src.port)

\* the step is a pass of the receive loop of the poll that got a datagram
ReceivesDatagram ==
    /\ pc = "poll" /\ pc' = "poll"
    /\ sock_queue # <<>>
    /\ sock_queue' = Tail(sock_queue)

C16_KnownActorNotRediscovered ==
    [][(/\ ReceivesDatagram
        /\ \/ hist.remote_regs[HeadAddr] > 0
           \/ HeadAddr \in hist.spectators)
       => (eng' = eng /\ ctx' = ctx)]_vars

\* the results a receive owes for the datagrams q
Owed(q) == [k \in 1..Len(q) |->
               [addr |-> FormatAddr(q[k].src.ip, q[k].src.port),
                len |-> q[k].len]]

\* C17 as stated: when ra_gekkonet_udp_receive has returned, its results are
\* the datagrams that were queued when the poll began, in arrival order, the
\* count is their number, the socket is empty, and the list is NULL exactly
\* when the count is 0.
C17_ReceiveDrainsQueue ==
    (pc = "session_events" /\ g_udp_adapter # NULL) =>
        /\ tick.results = Owed(tick.queued)
        /\ tick.recv.count = Len(tick.queued)
        /\ sock_queue = <<>>
        /\ tick.recv.list = (tick.recv.count > 0)

\* C28: a call of ra_gekkonet_add_actor for a Spectator on a session with
\* an engine goes to the engine whatever the actor counts are, and whether
\* the engine gives a handle or not it leaves the context as it was, so the
\* room left for remote players, num_players less the two counts, is the
\* same after it.
C28_SpectatorsNotCapacityLimited ==
    [][(/\ pc = "idle"
        /\ op'.name = "add_actor" /\ op'.type = "Spectator"
        /\ ctx.session # NULL)
       => (/\ eng'.calls = <<"gekko_add_actor">>
           /\ ret' >= 0 <=> eng'.next_handle = eng.next_handle + 1
           /\ ret' >= 0 => ret' = eng.next_handle
           /\ ctx'.num_players - ctx'.local_actor_count
                  - ctx'.remote_actor_count
               = ctx.num_players - ctx.local_actor_count
                  - ctx.remote_actor_count
           /\ ctx' = ctx)]_vars

\* a Spectator with an address text has just got a handle, the third the
\* engine gave, on a session that has no room for another remote player
C28_Witness ==
    /\ op.name = "add_actor" /\ op.type = "Spectator"
    /\ ret = 2
    /\ eng.calls = <<"gekko_add_actor">>
    /\ hist.spectators # {}
    /\ ctx.local_actor_count + ctx.remote_actor_count = ctx.num_players

(***************************************************************************)
(* Properties of the receive cycle, checked under SpecRecv.                *)
(***************************************************************************)

\* q is the first Len(q) entries of r
IsPrefix(q, r) == Len(q) <= Len(r) /\ q = SubSeq(r, 1, Len(q))

\* C29: while the receive loop of a poll runs, every receive attempt so far
\* took one of the datagrams that were pending when the poll began; when
\* ra_gekkonet_udp_receive has returned it has made at most one attempt more
\* than there were datagrams pending, and what it returned are the
\* datagrams received before the attempt that failed, in arrival order; the
\* failing attempt, would-block or not, changes nothing of the context and
\* the session stays Active; and every tick that began comes to its end.
C29_ReceiveTerminates ==
    /\ [](pc = "poll" =>
             /\ tick.attempts = Len(tick.results)
             /\ tick.attempts + Len(sock_queue) = Len(tick.queued))
    /\ []((pc = "session_events" /\ g_udp_adapter # NULL) =>
             /\ tick.attempts <= Len(tick.queued) + 1
             /\ tick.attempts = Len(tick.results) + 1
             /\ tick.recv.count = Len(tick.results)
             /\ IsPrefix(tick.results, Owed(tick.queued))
             /\ ctx.active)
    /\ [][(pc = "poll" /\ pc' # "poll")
            => (/\ pc' = "session_events"
                /\ ctx' = ctx
                /\ tick'.results = tick.results
                /\ tick'.recv = [count |-> Len(tick.results),
                                 list |-> tick.results # <<>>])]_vars
    /\ (pc = "poll" ~> pc = "session_events")
    /\ (pc = "session_events" ~> pc = "idle")

\* recvfrom has failed with a datagram pending after the loop received one:
\* the receive returned the one it had
C29_Witness ==
    /\ pc = "session_events"
    /\ Len(tick.queued) = 2
    /\ tick.attempts = 2
    /\ tick.recv.count = 1
    /\ Len(sock_queue) = 1

(***************************************************************************)
(* Properties of the send path, checked under SpecSend.                    *)
(***************************************************************************)

\* C18 as stated: whenever ra_gekkonet_udp_send has handed a datagram to
\* sendto, the address it was given is well formed: its size is below 128,
\* and it has a colon that is not its first character and is followed by
\* one or more characters, all of them digits.
C18_SendsOnlyToWellFormed ==
    tick.send.wire # <<>> =>
        /\ AddrSize(tick.send) < AddrBufSize
        /\ \E c \in 2..(Len(tick.send.data) - 1) :
              /\ tick.send.data[c] = ":"
              /\ \A k \in (c + 1)..Len(tick.send.data) :
                    IsDigit(tick.send.data[k])

\* when a datagram is sent the address has a size below 128, a colon that
\* is not its first character, and a dotted quad before its last colon
SendsOnlyToParsed ==
    tick.send.wire # <<>> =>
        /\ AddrSize(tick.send) < AddrBufSize
        /\ \E c \in 2..Len(tick.send.data) :
              /\ tick.send.data[c] = ":"
              /\ SubSeq(tick.send.data, 1, c - 1)
                    \in {<<"10.0.0.2">>, <<"10.0.0.3">>}

====
